---------------------------- MODULE Spec2Model ----------------------------
(***************************************************************************)
(* Model of the Tecmo Super Bowl asset tools:                              *)
(*   tools/convert_chr_to_png.py  (CHR 2bpp planar -> sprite sheet)        *)
(*   tools/extract_chr.py         (byte range of a ROM -> file)            *)
(*   tools/extract_all.py         (master script running extract_chr.py)   *)
(*                                                                         *)
(* A Python bytes object is immutable.  It is modelled as a window         *)
(* [seed, off, len] on a fixed byte pattern: its k-th byte (k from 0) is   *)
(* Pattern(seed, off + k).  Slicing and indexing follow Python's rules.    *)
(* A PIL image is a record [w, h, rows]; rows[Y+1][X+1] is pixel (X, Y).   *)
(***************************************************************************)
EXTENDS Integers, Sequences, FiniteSets

VARIABLES
    pc,        \* position of the running invocation
    args,      \* the invocation's arguments (argv, or a function's inputs)
    fs,        \* file system: path -> NoFile or a bytes object / an image
    ret,       \* value returned, or exception raised, by a called function
    chr_data,  \* convert: main's / create_sprite_sheet's chr_data
    palette,   \* convert: resolved palette
    sheet,     \* convert: create_sprite_sheet's sheet image
    tile_idx,  \* convert: loop variable of create_sprite_sheet
    bank_idx,  \* extract_all: position in the loop over CHR_BANKS
    proc,      \* extract: the running extract_chr.py process
    status,    \* completion status of the process (None while running)
    stderr     \* messages printed to stderr, in order

vars == <<pc, args, fs, ret, chr_data, palette, sheet, tile_idx, bank_idx,
          proc, status, stderr>>

None == [none |-> TRUE]
NoFile == [nofile |-> TRUE]

Return(v) == [ok |-> TRUE, val |-> v]
Raise(e) == [ok |-> FALSE, exc |-> e]

Min(a, b) == IF a < b THEN a ELSE b
Max(a, b) == IF a > b THEN a ELSE b

RECURSIVE Pow2(_)
Pow2(n) == IF n = 0 THEN 1 ELSE 2 * Pow2(n - 1)

(***************************************************************************)
(* Bounds of the model.                                                    *)
(***************************************************************************)
MaxTiles == 3         \* CHR buffers hold up to MaxTiles complete tiles
MaxSeed == 2          \* byte patterns 0..MaxSeed
MaxTilesPerRow == 2   \* --tiles-per-row ranges over 1..MaxTilesPerRow
MaxScale == 2         \* --scale ranges over 1..MaxScale
MaxIndex == 67        \* palette indices range over -MaxIndex..MaxIndex
MaxRomLen == 6        \* small ROMs hold up to MaxRomLen bytes

(***************************************************************************)
(* Python integers and bytes.                                              *)
(***************************************************************************)
\* a >> n and a << n on Python ints (floor division, also for a < 0)
Shr(a, n) == a \div Pow2(n)
Shl(a, n) == a * Pow2(n)

\* bit j of a in (infinite) two's complement
BitOf(a, j) == Shr(a, j) % 2

RECURSIVE BitAndUpTo(_, _, _)
BitAndUpTo(a, m, j) ==
    IF j < 0 THEN 0
    ELSE (IF BitOf(a, j) = 1 /\ BitOf(m, j) = 1 THEN Pow2(j) ELSE 0)
         + BitAndUpTo(a, m, j - 1)

RECURSIVE BitOrUpTo(_, _, _)
BitOrUpTo(a, b, j) ==
    IF j < 0 THEN 0
    ELSE (IF BitOf(a, j) = 1 \/ BitOf(b, j) = 1 THEN Pow2(j) ELSE 0)
         + BitOrUpTo(a, b, j - 1)

\* a & m for a mask 0 <= m < 256 (a any integer); a | b for 0 <= a, b < 256
BitAnd(a, m) == BitAndUpTo(a, m, 7)
BitOr(a, b) == BitOrUpTo(a, b, 7)

\* the byte the pattern `seed` holds at position k
Pattern(seed, k) == (seed * (37 * k + 101)) % 256

Bytes(seed, len) == [seed |-> seed, off |-> 0, len |-> len]

\* len(b)
PyLen(b) == b.len

\* b[start:stop]: negative bounds count from the end, then both are clamped
SliceBound(n, i) == IF i < 0 THEN Max(i + n, 0) ELSE Min(i, n)

PySlice(b, start, stop) ==
    LET s == SliceBound(b.len, start)
        e == SliceBound(b.len, stop)
    IN  [seed |-> b.seed, off |-> b.off + s, len |-> Max(e - s, 0)]

\* b[i] for 0 <= i < len(b)
ByteAt(b, i) == Pattern(b.seed, b.off + i)

\* whether b[i] raises IndexError
IndexFails(b, i) == ~(-b.len <= i /\ i < b.len)

(***************************************************************************)
(* convert_chr_to_png.py                                                   *)
(***************************************************************************)
NES_PALETTE == <<
    <<98, 98, 98>>, <<0, 31, 178>>, <<33, 12, 160>>, <<68, 0, 150>>,
    <<115, 0, 107>>, <<128, 0, 46>>, <<111, 15, 0>>, <<76, 30, 0>>,
    <<25, 50, 0>>, <<0, 59, 0>>, <<0, 58, 30>>, <<0, 50, 93>>,
    <<0, 0, 0>>, <<0, 0, 0>>, <<0, 0, 0>>, <<0, 0, 0>>,
    <<182, 182, 182>>, <<16, 92, 231>>, <<72, 60, 219>>, <<116, 42, 208>>,
    <<167, 37, 159>>, <<181, 46, 90>>, <<160, 70, 23>>, <<121, 87, 0>>,
    <<70, 110, 0>>, <<39, 120, 0>>, <<0, 118, 62>>, <<0, 110, 138>>,
    <<0, 0, 0>>, <<0, 0, 0>>, <<0, 0, 0>>, <<0, 0, 0>>,
    <<255, 255, 255>>, <<95, 168, 255>>, <<143, 138, 255>>, <<188, 120, 255>>,
    <<236, 113, 255>>, <<255, 118, 186>>, <<255, 145, 111>>, <<255, 165, 41>>,
    <<204, 191, 0>>, <<164, 202, 28>>, <<109, 216, 100>>, <<63, 212, 197>>,
    <<0, 0, 0>>, <<0, 0, 0>>, <<0, 0, 0>>, <<0, 0, 0>>,
    <<255, 255, 255>>, <<189, 226, 255>>, <<209, 214, 255>>, <<229, 206, 255>>,
    <<248, 204, 255>>, <<255, 206, 237>>, <<255, 217, 209>>, <<255, 224, 191>>,
    <<234, 234, 158>>, <<216, 239, 158>>, <<196, 243, 189>>, <<183, 242, 230>>,
    <<0, 0, 0>>, <<0, 0, 0>>, <<0, 0, 0>>, <<0, 0, 0>> >>

\* decode_pixel reading the leftmost pixel from bit 0 instead of bit 7
decode_pixel_lsb_first(tile_low, tile_high, y, x) ==
    LET low_byte == ByteAt(tile_low, y)
        high_byte == ByteAt(tile_high, y)
        bit == x
        low_bit == BitAnd(Shr(low_byte, bit), 1)
        high_bit == BitAnd(Shr(high_byte, bit), 1)
    IN  BitOr(Shl(high_bit, 1), low_bit)

\* one pixel of decode_tile: row y, column x (both from 0)
decode_pixel(tile_low, tile_high, y, x) ==
    LET low_byte == ByteAt(tile_low, y)
        high_byte == ByteAt(tile_high, y)
        bit == 7 - x
        low_bit == BitAnd(Shr(low_byte, bit), 1)
        high_bit == BitAnd(Shr(high_byte, bit), 1)
    IN  BitOr(Shl(high_bit, 1), low_bit)

\* decode_tile(chr_data, tile_index): the grid pixels, pixels[y+1][x+1]
decode_tile(data, tile_index) ==
    LET offset == tile_index * 16
        tile_low == PySlice(data, offset, offset + 8)
        tile_high == PySlice(data, offset + 8, offset + 16)
    IN  IF \E y \in 0..7 : IndexFails(tile_low, y) \/ IndexFails(tile_high, y)
        THEN Raise("IndexError")
        ELSE Return([y1 \in 1..8 |->
                       [x1 \in 1..8 |->
                          decode_pixel(tile_low, tile_high, y1 - 1, x1 - 1)]])

\* get_palette_colors clamping an index into 0..63 instead of masking it
get_palette_colors_clamped(palette_indices) ==
    [k \in 1..Len(palette_indices) |->
        NES_PALETTE[Min(Max(palette_indices[k], 0), 63) + 1]]

\* get_palette_colors(palette_indices)
get_palette_colors(palette_indices) ==
    [k \in 1..Len(palette_indices) |->
        NES_PALETTE[BitAnd(palette_indices[k], 63) + 1]]

\* Image.new('RGB', (w, h)): every pixel black
Black == <<0, 0, 0>>
ImageNew(w, h) ==
    [w |-> w, h |-> h, rows |-> [Y1 \in 1..h |-> [X1 \in 1..w |-> Black]]]

\* pixels[X, Y] = color
PutPixel(img, X, Y, color) == [img EXCEPT !.rows[Y + 1][X + 1] = color]

PixelAt(img, X, Y) == img.rows[Y + 1][X + 1]

\* the four nested loops of create_tile_image, innermost first; an image of
\* width 0 (scale = 0) has no pixel to set, and testing it first makes each
\* iteration work on the image the previous one produced
\* tile_loop_dx stepping by one pixel instead of by one scaled pixel
RECURSIVE tile_loop_dx_unscaled(_, _, _, _, _, _, _)
tile_loop_dx_unscaled(img, color, scale, y, x, dy, dx) ==
    IF img.w = 0 \/ dx >= scale THEN img
    ELSE tile_loop_dx_unscaled(PutPixel(img, x + dx, y + dy, color),
                               color, scale, y, x, dy, dx + 1)

RECURSIVE tile_loop_dx(_, _, _, _, _, _, _)
tile_loop_dx(img, color, scale, y, x, dy, dx) ==
    IF img.w = 0 \/ dx >= scale THEN img
    ELSE tile_loop_dx(PutPixel(img, x * scale + dx, y * scale + dy, color),
                      color, scale, y, x, dy, dx + 1)

RECURSIVE tile_loop_dy(_, _, _, _, _, _)
tile_loop_dy(img, color, scale, y, x, dy) ==
    IF img.w = 0 \/ dy >= scale THEN img
    ELSE tile_loop_dy(tile_loop_dx(img, color, scale, y, x, dy, 0),
                      color, scale, y, x, dy + 1)

RECURSIVE tile_loop_x(_, _, _, _, _, _)
tile_loop_x(img, tile_pixels, pal, scale, y, x) ==
    IF img.w = 0 \/ x >= 8 THEN img
    ELSE LET color == pal[tile_pixels[y + 1][x + 1] + 1]
         IN  tile_loop_x(tile_loop_dy(img, color, scale, y, x, 0),
                         tile_pixels, pal, scale, y, x + 1)

RECURSIVE tile_loop_y(_, _, _, _, _)
tile_loop_y(img, tile_pixels, pal, scale, y) ==
    IF img.w = 0 \/ y >= 8 THEN img
    ELSE tile_loop_y(tile_loop_x(img, tile_pixels, pal, scale, y, 0),
                     tile_pixels, pal, scale, y + 1)

\* create_tile_image(tile_pixels, palette, scale)
create_tile_image(tile_pixels, pal, scale) ==
    tile_loop_y(ImageNew(8 * scale, 8 * scale), tile_pixels, pal, scale, 0)


\* Image.paste(src, (x, y)): src copied into dst at (x, y), clipped to dst
ImagePaste(dst, src, x, y) ==
    [dst EXCEPT !.rows =
        [Y1 \in 1..dst.h |->
            [X1 \in 1..dst.w |->
                IF /\ x <= X1 - 1 /\ X1 - 1 < x + src.w
                   /\ y <= Y1 - 1 /\ Y1 - 1 < y + src.h
                THEN PixelAt(src, X1 - 1 - x, Y1 - 1 - y)
                ELSE dst.rows[Y1][X1]]]]

\* create_sprite_sheet: len(chr_data) // 16
num_tiles_of(data) == PyLen(data) \div 16

\* rows with one row too many whenever the last row is full
sheet_rows_extra(num_tiles, tiles_per_row) == num_tiles \div tiles_per_row + 1

\* create_sprite_sheet: rows
sheet_rows(num_tiles, tiles_per_row) ==
    (num_tiles + tiles_per_row - 1) \div tiles_per_row

\* tile position with row and column exchanged
tile_position_swapped(idx, tiles_per_row, tile_size) ==
    LET row == idx % tiles_per_row
        col == idx \div tiles_per_row
    IN  [x |-> col * tile_size, y |-> row * tile_size]

\* tile position stepping rows by 8 pixels instead of by tile_size
tile_position_unscaled_rows(idx, tiles_per_row, tile_size) ==
    LET row == idx \div tiles_per_row
        col == idx % tiles_per_row
    IN  [x |-> col * tile_size, y |-> row * 8]

\* create_sprite_sheet: where tile idx is pasted
tile_position(idx, tiles_per_row, tile_size) ==
    LET row == idx \div tiles_per_row
        col == idx % tiles_per_row
    IN  [x |-> col * tile_size, y |-> row * tile_size]

\* create_sprite_sheet: the empty sheet
sheet_new(data, tiles_per_row, scale) ==
    LET num_tiles == num_tiles_of(data)
        rows == sheet_rows(num_tiles, tiles_per_row)
        tile_size == 8 * scale
        sheet_width == tiles_per_row * tile_size
        sheet_height == rows * tile_size
    IN  ImageNew(sheet_width, sheet_height)

\* create_sprite_sheet: one iteration of the loop over the tiles
sheet_paste(sh, data, pal, tiles_per_row, scale, idx) ==
    LET tile_pixels == decode_tile(data, idx).val
        tile_img == create_tile_image(tile_pixels, pal, scale)
        pos == tile_position(idx, tiles_per_row, 8 * scale)
    IN  ImagePaste(sh, tile_img, pos.x, pos.y)

(***************************************************************************)
(* Strings are sequences of one-character strings.                         *)
(***************************************************************************)
Digits == <<"0", "1", "2", "3", "4", "5", "6", "7", "8", "9">>

IsDigit(c) == \E d \in 1..10 : Digits[d] = c
DigitVal(c) == (CHOOSE d \in 1..10 : Digits[d] = c) - 1

\* str(n) for n >= 0
RECURSIVE PyStr(_)
PyStr(n) ==
    IF n < 10 THEN <<Digits[n + 1]>>
    ELSE PyStr(n \div 10) \o <<Digits[(n % 10) + 1]>>

\* s.strip()
RECURSIVE PyStrip(_)
PyStrip(s) ==
    IF s # <<>> /\ s[1] = " " THEN PyStrip(Tail(s))
    ELSE IF s # <<>> /\ s[Len(s)] = " " THEN PyStrip(SubSeq(s, 1, Len(s) - 1))
    ELSE s

\* s.split(sep)
RECURSIVE PySplit(_, _)
PySplit(s, sep) ==
    IF \E i \in 1..Len(s) : s[i] = sep
    THEN LET i == CHOOSE j \in 1..Len(s) :
                    s[j] = sep /\ \A k \in 1..(j - 1) : s[k] # sep
         IN  <<SubSeq(s, 1, i - 1)>> \o PySplit(SubSeq(s, i + 1, Len(s)), sep)
    ELSE <<s>>

\* the value of a string of decimal digits and underscores
RECURSIVE DecimalValue(_, _)
DecimalValue(s, acc) ==
    IF s = <<>> THEN acc
    ELSE IF s[1] = "_" THEN DecimalValue(Tail(s), acc)
    ELSE DecimalValue(Tail(s), 10 * acc + DigitVal(s[1]))

\* int(s): base 10, surrounding blanks, an optional sign, digits that single
\* underscores may separate; anything else (such as "0x0f") is a ValueError
PyInt(s) ==
    LET t == PyStrip(s)
        signed == t # <<>> /\ t[1] \in {"+", "-"}
        body == IF signed THEN Tail(t) ELSE t
        wellFormed ==
            /\ body # <<>>
            /\ \A k \in 1..Len(body) : IsDigit(body[k]) \/ body[k] = "_"
            /\ body[1] # "_" /\ body[Len(body)] # "_"
            /\ \A k \in 1..(Len(body) - 1) : ~(body[k] = "_" /\ body[k + 1] = "_")
    IN  IF ~wellFormed THEN Raise("ValueError")
        ELSE IF signed /\ t[1] = "-" THEN Return(0 - DecimalValue(body, 0))
        ELSE Return(DecimalValue(body, 0))

(***************************************************************************)
(* convert_chr_to_png.py: main                                             *)
(***************************************************************************)
\* the --palette default, the string "0x0f,0x20,0x28,0x30"
DefaultPaletteText ==
    <<"0", "x", "0", "f", ",", "0", "x", "2", "0", ",",
      "0", "x", "2", "8", ",", "0", "x", "3", "0">>

DefaultTilesPerRow == 16
DefaultScale == 1

\* the --palette type: lambda x: [int(i) for i in x.split(',')]
palette_type(x) ==
    LET toks == PySplit(x, ",")
    IN  IF \E k \in 1..Len(toks) : ~PyInt(toks[k]).ok
        THEN Raise("ValueError")
        ELSE Return([k \in 1..Len(toks) |-> PyInt(toks[k]).val])

\* parser.parse_args(): an option is <<>> when absent and <<text>> when given.
\* argparse converts a given value with the option's type; it converts a
\* default with the type too when the default is a string, and takes any
\* other default as it is.  A failed conversion ends the process (status 2).
convert_parse_args(argv) ==
    LET pal == IF argv.palette = <<>> THEN palette_type(DefaultPaletteText)
               ELSE palette_type(argv.palette[1])
        tpr == IF argv.tiles_per_row = <<>> THEN Return(DefaultTilesPerRow)
               ELSE PyInt(argv.tiles_per_row[1])
        scl == IF argv.scale = <<>> THEN Return(DefaultScale)
               ELSE PyInt(argv.scale[1])
    IN  IF pal.ok /\ tpr.ok /\ scl.ok
        THEN Return([palette |-> pal.val, tiles_per_row |-> tpr.val,
                     scale |-> scl.val])
        ELSE Raise("ArgumentError")

\* main: the length check, chr_data cut to complete tiles
complete_tiles(data) ==
    IF PyLen(data) % 16 # 0
    THEN PySlice(data, 0, PyLen(data) - (PyLen(data) % 16))
    ELSE data

(***************************************************************************)
(* extract_chr.py                                                          *)
(***************************************************************************)
HexDigits == Digits \o <<"a", "b", "c", "d", "e", "f">>

IsHexDigit(c) == \E d \in 1..16 : HexDigits[d] = c
HexDigitVal(c) == (CHOOSE d \in 1..16 : HexDigits[d] = c) - 1

RECURSIVE HexValue(_, _)
HexValue(s, acc) ==
    IF s = <<>> THEN acc ELSE HexValue(Tail(s), 16 * acc + HexDigitVal(s[1]))

\* hex(n) for n >= 0, without the "0x"
RECURSIVE HexText(_)
HexText(n) ==
    IF n < 16 THEN <<HexDigits[n + 1]>>
    ELSE HexText(n \div 16) \o <<HexDigits[(n % 16) + 1]>>

\* hex(n)
PyHex(n) ==
    IF n < 0 THEN <<"-", "0", "x">> \o HexText(0 - n)
    ELSE <<"0", "x">> \o HexText(n)

\* int(s, 0): the base follows the literal's prefix.  Decimal and lower-case
\* "0x" literals are modelled (the texts the tools and the inputs use); a
\* non-zero decimal literal must not start with 0.
PyIntAuto(s) ==
    LET t == PyStrip(s)
        signed == t # <<>> /\ t[1] \in {"+", "-"}
        body == IF signed THEN Tail(t) ELSE t
        isHex == Len(body) >= 2 /\ body[1] = "0" /\ body[2] = "x"
        hexBody == SubSeq(body, 3, Len(body))
        hexOk == hexBody # <<>> /\ \A k \in 1..Len(hexBody) : IsHexDigit(hexBody[k])
        decOk == /\ PyInt(body).ok
                 /\ body[1] \notin {"+", "-", " "}
                 /\ body[1] = "0" => PyInt(body).val = 0
        magnitude == IF isHex THEN HexValue(hexBody, 0) ELSE PyInt(body).val
    IN  IF (isHex /\ ~hexOk) \/ (~isHex /\ ~decOk) THEN Raise("ValueError")
        ELSE IF signed /\ t[1] = "-" THEN Return(0 - magnitude)
        ELSE Return(magnitude)

\* extract_chr accepting a range that ends one byte past the ROM
extract_chr_off_by_one(rom_data, address, size) ==
    IF address + size > PyLen(rom_data) + 1
    THEN Raise("ValueError")
    ELSE Return(PySlice(rom_data, address, address + size))

\* extract_chr(rom_data, address, size)
extract_chr(rom_data, address, size) ==
    IF address + size > PyLen(rom_data)
    THEN Raise("ValueError")
    ELSE Return(PySlice(rom_data, address, address + size))

HeaderSize == 16
BankSize == 16384

\* get_prg_bank_address(bank_number)
get_prg_bank_address(bank_number) == HeaderSize + (bank_number * BankSize)

DefaultSize == 8192

\* extract_chr.py's parser.parse_args(); --rom and --output are always given
extract_parse_args(argv) ==
    LET bank == IF argv.bank = <<>> THEN Return(<<>>)
                ELSE IF PyInt(argv.bank[1]).ok
                     THEN Return(<<PyInt(argv.bank[1]).val>>)
                     ELSE Raise("ValueError")
        address == IF argv.address = <<>> THEN Return(<<>>)
                   ELSE IF PyIntAuto(argv.address[1]).ok
                        THEN Return(<<PyIntAuto(argv.address[1]).val>>)
                        ELSE Raise("ValueError")
        size == IF argv.size = <<>> THEN Return(DefaultSize)
                ELSE PyIntAuto(argv.size[1])
    IN  IF bank.ok /\ address.ok /\ size.ok
        THEN Return([rom |-> argv.rom, output |-> argv.output,
                     bank |-> bank.val, address |-> address.val,
                     size |-> size.val])
        ELSE Raise("ArgumentError")

\* what a run of a command leaves: its status, its stderr, the file system,
\* and (extract_chr.py) what the call of extract_chr returned or raised
Outcome(st, err, fsys, call) ==
    [status |-> st, stderr |-> err, fs |-> fsys, call |-> call]

\* extract_chr.py: main, from the parsed arguments on
extract_chr_run(fsys, a) ==
    IF fsys[a.rom] = NoFile
    THEN Outcome(1, <<"Error: ROM file not found">>, fsys, None)
    ELSE IF a.address = <<>> /\ a.bank = <<>>
    THEN Outcome(1, <<"Error: Must specify either --bank or --address">>,
                 fsys, None)
    ELSE LET rom_data == fsys[a.rom]
             address == IF a.address # <<>> THEN a.address[1]
                        ELSE get_prg_bank_address(a.bank[1])
             call == extract_chr(rom_data, address, a.size)
         IN  IF call.ok
             THEN Outcome(0, <<>>, [fsys EXCEPT ![a.output] = call.val], call)
             ELSE Outcome(1, <<"Error: Address + size exceeds ROM size">>,
                          fsys, call)

(***************************************************************************)
(* extract_all.py                                                          *)
(***************************************************************************)
CHR_BANKS == <<
    [name |-> "player_sprites", bank |-> 10, address |-> <<>>, size |-> 8192],
    [name |-> "bg_tiles_11_12", bank |-> 11, address |-> <<>>, size |-> 8192],
    [name |-> "bg_tiles_12_13", bank |-> 12, address |-> <<>>, size |-> 8192] >>

\* extract_all: raw_dir / f"{name}.chr"
raw_file(output_dir, name) == <<output_dir, "raw", name \o ".chr">>

\* extract_all: the arguments built for one bank
bank_argv(rom_path, output_dir, info) ==
    [rom |-> rom_path,
     bank |-> <<PyStr(info.bank)>>,
     size |-> <<PyStr(info.size)>>,
     output |-> raw_file(output_dir, info.name),
     address |-> IF info.address # <<>> THEN <<PyHex(info.address[1])>>
                 ELSE <<>>]

\* run_extractor, once the subprocess `result` has ended: whether it ended
\* with status 0, and what is printed to stderr
run_extractor(result) ==
    [ok |-> result.returncode[1] = 0,
     stderr |-> IF result.returncode[1] # 0 THEN <<"Error:">> \o result.stderr
                ELSE <<>>]

\* extract_all: the value returned after the loop over CHR_BANKS
extract_all_returns == TRUE

\* extract_all.py: main's output directory
output_dir_of(argv) == IF argv.output = <<>> THEN "assets" ELSE argv.output[1]

(***************************************************************************)
(* Inputs.                                                                 *)
(***************************************************************************)
\* CHR buffers: complete tiles, with and without a trailing partial record
ChrBuffers ==
    {Bytes(seed, 16 * n + r) : seed \in 0..MaxSeed, n \in 0..MaxTiles,
                               r \in {0, 1, 15}}

\* palette selections, as lists of indices into NES_PALETTE
SamplePaletteIndices ==
    {<<15, 32, 40, 48>>, <<1, 22, 41, 33>>, <<64, 67, -1, 130>>}

PaletteIndexLists ==
    {<<>>} \cup {<<i>> : i \in -MaxIndex..MaxIndex}
           \cup {<<i, j>> : i \in {-MaxIndex, -64, -1, 0, 3, 63, 64, MaxIndex},
                            j \in -MaxIndex..MaxIndex}
           \cup SamplePaletteIndices

\* colour-index grids: the tiles of the CHR buffers, and the four flat grids
SampleGrids ==
    {decode_tile(Bytes(seed, 16 * MaxTiles), i).val :
        seed \in 0..MaxSeed, i \in 0..(MaxTiles - 1)}
    \cup {[y1 \in 1..8 |-> [x1 \in 1..8 |-> v]] : v \in 0..3}

(***************************************************************************)
(* SpecFn: one call of one of the pure functions of convert_chr_to_png.py. *)
(***************************************************************************)
Idle == /\ fs = None /\ chr_data = None /\ palette = None /\ sheet = None
        /\ tile_idx = None /\ bank_idx = None /\ proc = None /\ status = None
        /\ stderr = <<>>

FnInit ==
    /\ pc = "call"
    /\ ret = None
    /\ Idle
    /\ \/ args \in [fn : {"decode_tile"}, chr_data : ChrBuffers,
                    tile_index : -1..MaxTiles]
       \/ args \in [fn : {"get_palette_colors"},
                    palette_indices : PaletteIndexLists]
       \/ args \in [fn : {"create_tile_image"}, tile_pixels : SampleGrids,
                    palette : {get_palette_colors(p) : p \in SamplePaletteIndices},
                    scale : 1..MaxScale]

CallDecodeTile ==
    /\ pc = "call" /\ args.fn = "decode_tile"
    /\ ret' = decode_tile(args.chr_data, args.tile_index)
    /\ pc' = "done"
    /\ UNCHANGED <<args, fs, chr_data, palette, sheet, tile_idx, bank_idx, proc,
                   status, stderr>>

CallGetPaletteColors ==
    /\ pc = "call" /\ args.fn = "get_palette_colors"
    /\ ret' = Return(get_palette_colors(args.palette_indices))
    /\ pc' = "done"
    /\ UNCHANGED <<args, fs, chr_data, palette, sheet, tile_idx, bank_idx, proc,
                   status, stderr>>

CallCreateTileImage ==
    /\ pc = "call" /\ args.fn = "create_tile_image"
    /\ ret' = Return(create_tile_image(args.tile_pixels, args.palette,
                                       args.scale))
    /\ pc' = "done"
    /\ UNCHANGED <<args, fs, chr_data, palette, sheet, tile_idx, bank_idx, proc,
                   status, stderr>>

FnNext == CallDecodeTile \/ CallGetPaletteColors \/ CallCreateTileImage

SpecFn == FnInit /\ [][FnNext]_vars


(***************************************************************************)
(* SpecConvert: one invocation of the conversion command.                  *)
(***************************************************************************)
\* the text of an integer, and of a comma-separated list of integers
IntText(n) == IF n < 0 THEN <<"-">> \o PyStr(0 - n) ELSE PyStr(n)

RECURSIVE PaletteText(_)
PaletteText(indices) ==
    IF Len(indices) = 1 THEN IntText(indices[1])
    ELSE IntText(indices[1]) \o <<",">> \o PaletteText(Tail(indices))

ConvertBuffers ==
    {Bytes(seed, 16 * n + r) : seed \in {1, 3}, n \in 0..MaxTiles, r \in {0, 1}}

ConvertArgv ==
    [palette : {<<>>, <<DefaultPaletteText>>}
                 \cup {<<PaletteText(p)>> : p \in SamplePaletteIndices},
     tiles_per_row : {<<>>} \cup {<<PyStr(n)>> : n \in 1..MaxTilesPerRow},
     scale : {<<>>} \cup {<<PyStr(n)>> : n \in 1..MaxScale}]

ConvertInit ==
    /\ pc = "parse"
    /\ args \in ConvertArgv
    /\ fs \in [input : {NoFile} \cup ConvertBuffers, output : {NoFile}]
    /\ ret = None /\ chr_data = None /\ palette = None /\ sheet = None
    /\ tile_idx = None /\ bank_idx = None /\ proc = None /\ status = None
    /\ stderr = <<>>

\* main: args = parser.parse_args()
ConvertParseArgs ==
    /\ pc = "parse"
    /\ ret' = convert_parse_args(args)
    /\ IF ret'.ok
       THEN /\ pc' = "read"
            /\ UNCHANGED <<status, stderr>>
       ELSE /\ pc' = "exit"
            /\ status' = 2
            /\ stderr' = Append(stderr, "error: argument --palette/-p: invalid value")
    /\ UNCHANGED <<args, fs, chr_data, palette, sheet, tile_idx, bank_idx, proc>>

\* main: the input is checked, read and cut to complete tiles
ConvertReadInput ==
    /\ pc = "read"
    /\ IF fs.input = NoFile
       THEN /\ pc' = "exit"
            /\ status' = 1
            /\ stderr' = Append(stderr, "Error: Input file not found")
            /\ UNCHANGED chr_data
       ELSE /\ pc' = "palette"
            /\ chr_data' = complete_tiles(fs.input)
            /\ stderr' = IF PyLen(fs.input) % 16 # 0
                         THEN Append(stderr, "Warning: CHR data length is not a multiple of 16 bytes")
                         ELSE stderr
            /\ UNCHANGED status
    /\ UNCHANGED <<args, fs, ret, palette, sheet, tile_idx, bank_idx, proc>>

\* main: palette = get_palette_colors(args.palette)
ConvertPalette ==
    /\ pc = "palette"
    /\ palette' = get_palette_colors(ret.val.palette)
    /\ pc' = "sheet"
    /\ UNCHANGED <<args, fs, ret, chr_data, sheet, tile_idx, bank_idx, proc, status,
                   stderr>>

\* create_sprite_sheet: up to sheet = Image.new(...)
SheetNew ==
    /\ pc = "sheet"
    /\ sheet' = sheet_new(chr_data, ret.val.tiles_per_row, ret.val.scale)
    /\ tile_idx' = 0
    /\ pc' = "paste"
    /\ UNCHANGED <<args, fs, ret, chr_data, palette, bank_idx, proc, status, stderr>>

\* create_sprite_sheet: one iteration of for tile_idx in range(num_tiles)
SheetPaste ==
    /\ pc = "paste"
    /\ tile_idx < num_tiles_of(chr_data)
    /\ sheet' = sheet_paste(sheet, chr_data, palette, ret.val.tiles_per_row,
                            ret.val.scale, tile_idx)
    /\ tile_idx' = tile_idx + 1
    /\ UNCHANGED <<pc, args, fs, ret, chr_data, palette, bank_idx, proc, status,
                   stderr>>

\* create_sprite_sheet returns; main saves the sheet and ends (Image.save,
\* which is PIL's, is taken to write the sheet as it is)
ConvertSave ==
    /\ pc = "paste"
    /\ tile_idx >= num_tiles_of(chr_data)
    /\ fs' = [fs EXCEPT !.output = sheet]
    /\ status' = 0
    /\ pc' = "exit"
    /\ UNCHANGED <<args, ret, chr_data, palette, sheet, tile_idx, bank_idx, proc,
                   stderr>>

ConvertNext ==
    \/ ConvertParseArgs
    \/ ConvertReadInput
    \/ ConvertPalette
    \/ SheetNew
    \/ SheetPaste
    \/ ConvertSave

SpecConvert == ConvertInit /\ [][ConvertNext]_vars

(***************************************************************************)
(* SpecExtract: one invocation of extract_chr.py or of extract_all.py.     *)
(* extract_all.py runs extract_chr.py as a subprocess and waits for it, so *)
(* the steps of extract_chr.py are those of the command and of the child.  *)
(***************************************************************************)
RomPath == <<"rom.nes">>
OutPath == <<"out.chr">>

OutputDirs == {"assets", "dump"}

Paths ==
    {RomPath, OutPath}
    \cup {raw_file(d, CHR_BANKS[k].name) : d \in OutputDirs, k \in 1..Len(CHR_BANKS)}

\* ROM images: small ones, and ones that end at or just before the end of
\* the range extracted from bank 0 and from each bank of CHR_BANKS
RomImages ==
    {Bytes(1, n) : n \in 0..MaxRomLen}
    \cup {Bytes(3, get_prg_bank_address(b) + DefaultSize - d) :
             b \in {0} \cup {CHR_BANKS[k].bank : k \in 1..Len(CHR_BANKS)},
             d \in {0, 1}}

ExtractChrArgv ==
    [rom : {RomPath}, output : {OutPath},
     bank : {<<>>, <<PyStr(0)>>, <<PyStr(10)>>},
     address : {<<>>, <<PyHex(2)>>, <<<<"2", "k">>>>}
                 \cup {<<IntText(n)>> : n \in (0 - MaxRomLen - 1)..(MaxRomLen + 1)},
     size : {<<>>} \cup {<<IntText(n)>> : n \in (0 - 2)..(MaxRomLen + 1)}]

ExtractAllArgv == [rom : {RomPath}, output : {<<>>, <<"dump">>}]

\* a started extract_chr.py process
Process(argv) == [argv |-> argv, ns |-> <<>>, returncode |-> <<>>, stderr |-> <<>>]

ExtractInit ==
    /\ \/ /\ args \in [cmd : {"extract_chr"}, argv : ExtractChrArgv]
          /\ pc = "chr_parse"
          /\ proc = Process(args.argv)
       \/ /\ args \in [cmd : {"extract_all"}, argv : ExtractAllArgv]
          /\ pc = "start"
          /\ proc = None
    /\ \E rom \in {NoFile} \cup RomImages :
          fs = [p \in Paths |-> IF p = RomPath THEN rom ELSE NoFile]
    /\ ret = None /\ chr_data = None /\ palette = None /\ sheet = None
    /\ tile_idx = None /\ bank_idx = None /\ status = None
    /\ stderr = <<>>

\* extract_chr.py: args = parser.parse_args()
ExtractChrParse ==
    /\ pc = "chr_parse"
    /\ LET parsed == extract_parse_args(proc.argv)
       IN  IF parsed.ok
           THEN /\ proc' = [proc EXCEPT !.ns = <<parsed.val>>]
                /\ pc' = "chr_run"
           ELSE /\ proc' = [proc EXCEPT
                               !.returncode = <<2>>,
                               !.stderr = <<"error: argument: invalid value">>]
                /\ pc' = "chr_exit"
    /\ UNCHANGED <<args, fs, ret, chr_data, palette, sheet, tile_idx, bank_idx,
                   status, stderr>>

\* extract_chr.py: main after parse_args
ExtractChrRun ==
    /\ pc = "chr_run"
    /\ LET r == extract_chr_run(fs, proc.ns[1])
       IN  /\ fs' = r.fs
           /\ ret' = r.call
           /\ proc' = [proc EXCEPT !.returncode = <<r.status>>,
                                   !.stderr = r.stderr]
    /\ pc' = "chr_exit"
    /\ UNCHANGED <<args, chr_data, palette, sheet, tile_idx, bank_idx, status,
                   stderr>>

\* extract_chr.py run as the command has ended
ExtractChrExit ==
    /\ pc = "chr_exit" /\ args.cmd = "extract_chr"
    /\ status' = proc.returncode[1]
    /\ stderr' = proc.stderr
    /\ pc' = "exit"
    /\ UNCHANGED <<args, fs, ret, chr_data, palette, sheet, tile_idx, bank_idx,
                   proc>>

\* extract_all.py: main up to the loop of extract_all
ExtractAllStart ==
    /\ pc = "start" /\ args.cmd = "extract_all"
    /\ IF fs[args.argv.rom] = NoFile
       THEN /\ status' = 1
            /\ stderr' = <<"Error: ROM file not found">>
            /\ pc' = "exit"
            /\ UNCHANGED bank_idx
       ELSE /\ bank_idx' = 1
            /\ pc' = "banks"
            /\ UNCHANGED <<status, stderr>>
    /\ UNCHANGED <<args, fs, ret, chr_data, palette, sheet, tile_idx, proc>>

\* extract_all: for name, info in CHR_BANKS.items(), up to subprocess.run
ExtractAllBank ==
    /\ pc = "banks" /\ bank_idx <= Len(CHR_BANKS)
    /\ proc' = Process(bank_argv(args.argv.rom, output_dir_of(args.argv),
                                 CHR_BANKS[bank_idx]))
    /\ ret' = None
    /\ pc' = "chr_parse"
    /\ UNCHANGED <<args, fs, chr_data, palette, sheet, tile_idx, bank_idx,
                   status, stderr>>

\* run_extractor after subprocess.run, and the rest of the loop body
ExtractAllBankDone ==
    /\ pc = "chr_exit" /\ args.cmd = "extract_all"
    /\ stderr' = stderr \o run_extractor(proc).stderr
    /\ bank_idx' = bank_idx + 1
    /\ pc' = "banks"
    /\ UNCHANGED <<args, fs, ret, chr_data, palette, sheet, tile_idx, proc,
                   status>>

\* extract_all returns; main ends
ExtractAllFinish ==
    /\ pc = "banks" /\ bank_idx > Len(CHR_BANKS)
    /\ status' = IF extract_all_returns THEN 0 ELSE 1
    /\ pc' = "exit"
    /\ UNCHANGED <<args, fs, ret, chr_data, palette, sheet, tile_idx, bank_idx,
                   proc, stderr>>

ExtractNext ==
    \/ ExtractChrParse
    \/ ExtractChrRun
    \/ ExtractChrExit
    \/ ExtractAllStart
    \/ ExtractAllBank
    \/ ExtractAllBankDone
    \/ ExtractAllFinish

SpecExtract == ExtractInit /\ [][ExtractNext]_vars

(***************************************************************************)
(* Claims on the pure functions (SpecFn).                                  *)
(***************************************************************************)
\* bit j of the byte b
Bit(b, j) == (b \div Pow2(j)) % 2

\* the byte at position k (from 0) of the buffer b
Byte(b, k) == Pattern(b.seed, b.off + k)

DecodeValid ==
    /\ pc = "done" /\ args.fn = "decode_tile"
    /\ args.tile_index >= 0
    /\ (args.tile_index + 1) * 16 <= args.chr_data.len

\* C1: for a tile index i >= 0 with (i+1)*16 <= buffer length, decode_tile
\* returns an 8x8 grid whose cell [y][x] is
\* 2*bit(buffer[16i+8+y], 7-x) + bit(buffer[16i+y], 7-x), a value in 0..3,
\* and the call leaves the input buffer unchanged.
C1_DecodeTile ==
    /\ [](DecodeValid =>
            /\ ret.ok
            /\ DOMAIN ret.val = 1..8
            /\ \A y \in 0..7 :
                 /\ DOMAIN ret.val[y + 1] = 1..8
                 /\ \A x \in 0..7 :
                      /\ ret.val[y + 1][x + 1] =
                           2 * Bit(Byte(args.chr_data,
                                        16 * args.tile_index + 8 + y), 7 - x)
                           + Bit(Byte(args.chr_data,
                                      16 * args.tile_index + y), 7 - x)
                      /\ ret.val[y + 1][x + 1] \in 0..3)
    /\ [][CallDecodeTile => args'.chr_data = args.chr_data]_vars

\* a later tile was decoded and its grid holds all four colour indices
C1_Witness ==
    /\ DecodeValid
    /\ args.tile_index >= 1
    /\ ret.ok
    /\ {ret.val[y][x] : y \in 1..8, x \in 1..8} = 0..3

\* C3: get_palette_colors returns, for any integers, a list of the same
\* length and order whose k-th colour is NES_PALETTE[indices[k] mod 64]; it
\* never fails, so 64 resolves as 0 and 67 as 3.
C3_PaletteMasked ==
    (pc = "done" /\ args.fn = "get_palette_colors") =>
        /\ ret.ok
        /\ Len(ret.val) = Len(args.palette_indices)
        /\ \A k \in 1..Len(args.palette_indices) :
             ret.val[k] = NES_PALETTE[(args.palette_indices[k] % 64) + 1]
        /\ \A k \in 1..Len(args.palette_indices) :
             /\ args.palette_indices[k] = 64 => ret.val[k] = NES_PALETTE[1]
             /\ args.palette_indices[k] = 67 => ret.val[k] = NES_PALETTE[4]

\* indices 64, 67, a negative one and one above 127 were resolved in order
C3_Witness ==
    /\ pc = "done" /\ args.fn = "get_palette_colors"
    /\ args.palette_indices = <<64, 67, -1, 130>>
    /\ ret.val = <<NES_PALETTE[1], NES_PALETTE[4], NES_PALETTE[64],
                   NES_PALETTE[3]>>

\* C5: create_tile_image returns an (8*scale) x (8*scale) block whose pixel
\* (X, Y) is palette[grid[Y div scale][X div scale]]; every scale x scale
\* block is one colour, and sampling the block every scale pixels gives the
\* scale=1 block.
C5_TileImageScaled ==
    (pc = "done" /\ args.fn = "create_tile_image") =>
        LET s == args.scale
            img == ret.val
            one == create_tile_image(args.tile_pixels, args.palette, 1)
        IN  /\ img.w = 8 * s /\ img.h = 8 * s
            /\ Len(img.rows) = 8 * s
            /\ \A Y \in 0..(8 * s - 1) :
                 /\ Len(img.rows[Y + 1]) = 8 * s
                 /\ \A X \in 0..(8 * s - 1) :
                      PixelAt(img, X, Y) =
                        args.palette[args.tile_pixels[(Y \div s) + 1]
                                                     [(X \div s) + 1] + 1]
            /\ \A y \in 0..7, x \in 0..7 :
                 /\ \A dy \in 0..(s - 1), dx \in 0..(s - 1) :
                      PixelAt(img, x * s + dx, y * s + dy)
                        = PixelAt(img, x * s, y * s)
                 /\ PixelAt(img, x * s, y * s) = PixelAt(one, x, y)

\* a tile with all four colour indices was rasterised at a scale above 1
C5_Witness ==
    /\ pc = "done" /\ args.fn = "create_tile_image"
    /\ args.scale >= 2
    /\ {args.tile_pixels[y][x] : y \in 1..8, x \in 1..8} = 0..3
    /\ Cardinality({args.palette[k] : k \in 1..4}) = 4
    /\ ret.val.w = 8 * args.scale

(***************************************************************************)
(* Claims on the conversion command (SpecConvert).                         *)
(***************************************************************************)
\* the least r with r * d >= n
CeilDiv(n, d) == CHOOSE r \in 0..n : r * d >= n /\ \A q \in 0..(r - 1) : q * d < n

SheetBuilt == pc \in {"paste", "exit"} /\ sheet # None

\* the block of grid position g: its origin and the pixels it holds
BlockX(g) == (g % ret.val.tiles_per_row) * 8 * ret.val.scale
BlockY(g) == (g \div ret.val.tiles_per_row) * 8 * ret.val.scale
InBlock(g, X, Y) ==
    /\ BlockX(g) <= X /\ X < BlockX(g) + 8 * ret.val.scale
    /\ BlockY(g) <= Y /\ Y < BlockY(g) + 8 * ret.val.scale

\* C2: tile i is placed at grid row i div tiles_per_row and column
\* i mod tiles_per_row: sheet pixel (col*8*scale + X, row*8*scale + Y) is
\* palette[grid_i[Y div scale][X div scale]] with grid_i = decode_tile(buffer, i),
\* for every tile pasted so far and, in the returned sheet, for every tile
\* i < floor(buffer length / 16).
C2_TilesRowMajor ==
    SheetBuilt =>
        LET s == ret.val.scale
            tpr == ret.val.tiles_per_row
        IN  /\ pc = "exit" => tile_idx = PyLen(chr_data) \div 16
            /\ \A i \in 0..(tile_idx - 1) :
                 \A grid \in {decode_tile(chr_data, i).val} :
                    LET row == i \div tpr
                        col == i % tpr
                    IN  \A X \in 0..(8 * s - 1), Y \in 0..(8 * s - 1) :
                           PixelAt(sheet, col * 8 * s + X, row * 8 * s + Y)
                             = palette[grid[(Y \div s) + 1][(X \div s) + 1] + 1]

\* a sheet of three tiles in two rows, scaled, with differing tiles, was returned
C2_Witness ==
    /\ SheetBuilt /\ pc = "exit"
    /\ tile_idx = 3
    /\ ret.val.tiles_per_row = 2 /\ ret.val.scale = 2
    /\ decode_tile(chr_data, 0) # decode_tile(chr_data, 2)
    /\ PixelAt(sheet, 0, 0) # PixelAt(sheet, 0, 16)

\* C4: the sheet is tiles_per_row*8*scale wide and
\* ceil(tile_count / tiles_per_row)*8*scale tall, tile_count being
\* floor(buffer length / 16); the number of tile rows does not depend on scale.
C4_SheetDimensions ==
    SheetBuilt =>
        LET s == ret.val.scale
            tpr == ret.val.tiles_per_row
            tile_count == PyLen(chr_data) \div 16
        IN  /\ sheet.w = tpr * 8 * s
            /\ sheet.h = CeilDiv(tile_count, tpr) * 8 * s
            /\ Len(sheet.rows) = sheet.h
            /\ \A Y \in 1..sheet.h : Len(sheet.rows[Y]) = sheet.w

\* two tiles at two per row fill exactly one row, at a scale above 1
C4_Witness ==
    /\ SheetBuilt
    /\ PyLen(chr_data) \div 16 = 2
    /\ ret.val.tiles_per_row = 2 /\ ret.val.scale = 2
    /\ sheet.h = 16 /\ sheet.w = 32

\* C7: an input whose length is not a multiple of 16 never makes the
\* conversion command fail: it warns, decodes exactly floor(length / 16)
\* tiles and saves a sheet.
C7_TruncationNeverFails ==
    (pc = "exit" /\ fs.input # NoFile /\ PyLen(fs.input) % 16 # 0) =>
        /\ status = 0
        /\ \E k \in 1..Len(stderr) :
             stderr[k] = "Warning: CHR data length is not a multiple of 16 bytes"
        /\ PyLen(chr_data) = 16 * (PyLen(fs.input) \div 16)
        /\ tile_idx = PyLen(fs.input) \div 16
        /\ fs.output = sheet

\* C8: without a palette argument the conversion command runs to completion
\* with the colours NES_PALETTE[15], [32], [40], [48] in that order;
\* tiles-per-row defaults to 16 and scale to 1.
C8_DefaultPalette ==
    (pc = "exit" /\ args.palette = <<>> /\ fs.input # NoFile) =>
        /\ status = 0
        /\ palette = <<NES_PALETTE[16], NES_PALETTE[33], NES_PALETTE[41],
                       NES_PALETTE[49]>>
        /\ args.tiles_per_row = <<>> => ret.val.tiles_per_row = 16
        /\ args.scale = <<>> => ret.val.scale = 1

\* C10: pasting tile i changes only the pixels of tile i's own block; the
\* blocks of distinct tiles are disjoint and inside the sheet, so pasted
\* tiles are never overwritten; every pixel of a grid position with no tile
\* is black in the returned sheet.
C10_PasteFrame ==
    /\ [](SheetBuilt =>
            LET s == ret.val.scale
                tpr == ret.val.tiles_per_row
                n == PyLen(chr_data) \div 16
            IN  /\ \A i \in 0..(n - 1) :
                     /\ BlockX(i) + 8 * s <= sheet.w
                     /\ BlockY(i) + 8 * s <= sheet.h
                /\ \A i \in 0..(n - 1), j \in 0..(n - 1) :
                     i # j => \/ BlockX(i) + 8 * s <= BlockX(j)
                              \/ BlockX(j) + 8 * s <= BlockX(i)
                              \/ BlockY(i) + 8 * s <= BlockY(j)
                              \/ BlockY(j) + 8 * s <= BlockY(i)
                /\ pc = "exit" =>
                     \A X \in 0..(sheet.w - 1), Y \in 0..(sheet.h - 1) :
                        (\A i \in 0..(n - 1) : ~InBlock(i, X, Y))
                            => PixelAt(sheet, X, Y) = Black)
    /\ [][SheetPaste =>
            /\ sheet'.w = sheet.w /\ sheet'.h = sheet.h
            /\ \A X \in 0..(sheet.w - 1), Y \in 0..(sheet.h - 1) :
                 ~InBlock(tile_idx, X, Y)
                    => PixelAt(sheet', X, Y) = PixelAt(sheet, X, Y)]_vars

\* a returned sheet of three scaled tiles in two rows: the last grid position
\* holds no tile and the first tile is not black all over
C10_Witness ==
    /\ SheetBuilt /\ pc = "exit"
    /\ tile_idx = 3
    /\ ret.val.tiles_per_row = 2 /\ ret.val.scale = 2
    /\ PixelAt(sheet, 31, 31) = Black
    /\ \E X \in 0..15, Y \in 0..15 : PixelAt(sheet, X, Y) # Black

(***************************************************************************)
(* Claims on the extraction commands (SpecExtract).                        *)
(***************************************************************************)
\* extract_chr.py reached its call of extract_chr
ReaderCalled == pc = "exit" /\ args.cmd = "extract_chr" /\ ret # None

\* the offset and the length that call was given
ReaderOffset ==
    IF proc.ns[1].address # <<>> THEN proc.ns[1].address[1]
    ELSE HeaderSize + proc.ns[1].bank[1] * BankSize
ReaderLength == proc.ns[1].size

\* the reader failed and nothing was written, or it returned the bytes
\* [offset, offset + length) of the ROM, which the command wrote
ReaderContract ==
    IF ReaderOffset + ReaderLength > fs[RomPath].len
    THEN /\ ~ret.ok
         /\ status # 0
         /\ fs[OutPath] = NoFile
    ELSE /\ ret.ok
         /\ ret.val.len = ReaderLength
         /\ \A k \in 0..(ReaderLength - 1) :
              Byte(ret.val, k) = Byte(fs[RomPath], ReaderOffset + k)
         /\ fs[OutPath] = ret.val

\* C6 as stated: for every integer offset and length, extract_chr fails
\* (and no file is written) if offset+length > L and otherwise returns
\* exactly `length` bytes, the k-th being buffer[offset+k].
C6_AnyIntegers == ReaderCalled => ReaderContract

\* C6 amended: the same for every offset >= 0 and length >= 0.
C6_NonNegativeRange ==
    (ReaderCalled /\ ReaderOffset >= 0 /\ ReaderLength >= 0) => ReaderContract

\* a range that starts inside the ROM and ends exactly at its end was read
C6_Witness ==
    /\ ReaderCalled
    /\ ReaderOffset >= 1 /\ ReaderLength >= 2
    /\ ReaderOffset + ReaderLength = fs[RomPath].len
    /\ ret.ok
    /\ fs[OutPath] # NoFile

\* the range extracted for the k-th bank of CHR_BANKS exceeds the ROM
BankOutOfRange(k) ==
    HeaderSize + CHR_BANKS[k].bank * BankSize + CHR_BANKS[k].size
        > fs[RomPath].len

\* C9: every fatal condition (missing source path, range exceeding the ROM)
\* ends the extraction command and the master command with a non-zero
\* status and an error message, and the failed extraction writes no file;
\* the master does not end with status zero when a bank extraction failed.
C9_FatalIsNonZero ==
    pc = "exit" =>
        /\ args.cmd = "extract_chr" =>
             ((fs[RomPath] = NoFile \/ (ret # None /\ ~ret.ok)) =>
                 /\ status # 0
                 /\ stderr # <<>>
                 /\ fs[OutPath] = NoFile)
        /\ args.cmd = "extract_all" =>
             /\ fs[RomPath] = NoFile => status # 0 /\ stderr # <<>>
             /\ \A k \in 1..Len(CHR_BANKS) :
                  (fs[RomPath] # NoFile /\ BankOutOfRange(k)) =>
                      /\ status # 0
                      /\ stderr # <<>>
                      /\ fs[raw_file(output_dir_of(args.argv),
                                     CHR_BANKS[k].name)] = NoFile

=============================================================================
